---------------------------- MODULE Spec2Model ----------------------------
(***************************************************************************)
(* Verification model of lightweight-tunnel's data-plane helpers:          *)
(*   - pkg/fec       FEC.Encode / FEC.Decode over Reed-Solomon shards      *)
(*   - pkg/iptables  IPTablesManager and ClearAllRules                     *)
(*   - pkg/rawsocket packet construction, checksums and RecvPacket         *)
(*   - pkg/tunnel    MTUDiscovery.DiscoverOptimalMTU                       *)
(*   - pkg/faketcp   the mode switch SetMode / GetMode / DialAuto          *)
(* Each subsystem has its own specifications (SpecFEC, SpecFW, SpecRS,     *)
(* SpecMTU, SpecMode and their variants); the variables of the other       *)
(* subsystems stay at their initial values.                                *)
(***************************************************************************)
EXTENDS Integers, Sequences, FiniteSets, TLC

VARIABLES
    \* ---- pkg/fec ----
    fecPc,        \* "new" | "ready" | "encoded" | "received" | "decoded" | "rejected"
    fec,          \* the FEC struct: [dataShards, parityShards, shardSize]
    fecData,      \* the payload handed to Encode
    fecShards,    \* the [][]byte slice: what Encode returned / what Decode is given
    fecPresent,   \* the shardPresent mask handed to Decode
    fecOut        \* what Decode returned: [data, err]

VARIABLES
    \* ---- pkg/iptables ----
    table,        \* the kernel's filter table: copies of each rule in OUTPUT
    rules,        \* IPTablesManager.rules
    mu,           \* IPTablesManager.mu: 0 (unlocked) or the goroutine holding it
    gor,          \* each goroutine's call on the manager: position and locals
    clr,          \* the ClearAllRules call in progress: position and locals
    fwAdded,      \* history: the rules this manager's iptables -A calls added
    fwEnvFail,    \* history: a command of this session failed although applicable
    fwDelRan,     \* history: an iptables -D of this session removed a rule
    fwCrashes,    \* the number of sessions killed so far
    fwRecov       \* history: progress of the crash-recovery scenario

VARIABLES
    \* ---- pkg/rawsocket ----
    rsPc,         \* "idle" | "sent" | "wire" | "recvd"
    rsSend,       \* the SendPacket call: its arguments, the packet built, its result
    rsWire,       \* the datagram in flight to the receiving raw socket
    rsRecv        \* what RecvPacket returned

VARIABLES
    \* ---- pkg/tunnel ----
    mtuPc,        \* "none" | "new" | "search" | "done"
    mtuDisc,      \* the MTUDiscovery struct
    low,          \* DiscoverOptimalMTU's locals
    high,
    optimal,
    attempts,
    mtuProbes,    \* history: the <<size, answer>> pairs of the probes of this run
    mtuT,         \* the largest size the path carries, when the probe is that test
    mtuRet        \* what DiscoverOptimalMTU returned: [mtu, err]

VARIABLES
    \* ---- pkg/faketcp (adapter) ----
    CurrentMode,      \* the package variable CurrentMode
    EnableRawSocket,  \* the package variable EnableRawSocket
    modeGor           \* each goroutine's call into the package: position, locals

fecVars == <<fecPc, fec, fecData, fecShards, fecPresent, fecOut>>
fwVars == <<table, rules, mu, gor, clr, fwAdded, fwEnvFail, fwDelRan, fwCrashes, fwRecov>>

rsVars == <<rsPc, rsSend, rsWire, rsRecv>>

mtuVars == <<mtuPc, mtuDisc, low, high, optimal, attempts, mtuProbes, mtuT, mtuRet>>

modeVars == <<CurrentMode, EnableRawSocket, modeGor>>

vars == <<fecVars, fwVars, rsVars, mtuVars, modeVars>>

\* What the actions of one subsystem leave alone.
otherThanFec == <<fwVars, rsVars, mtuVars, modeVars>>
otherThanFw == <<fecVars, rsVars, mtuVars, modeVars>>
otherThanRs == <<fecVars, fwVars, mtuVars, modeVars>>
otherThanMtu == <<fecVars, fwVars, rsVars, modeVars>>
otherThanMode == <<fecVars, fwVars, rsVars, mtuVars>>

-----------------------------------------------------------------------------
(* Bounds of the model.                                                    *)

MaxD == 2
MaxP == 2
MaxS == 2
NumPatterns == 3
MaxRules == 2
MaxCopies == 2
MaxCrashes == 1
MaxOptLen == 2
MaxPayloadLen == 2

-----------------------------------------------------------------------------
(* Bytes and GF(2^8), the field of the Reed-Solomon encoder the FEC wraps. *)

RECURSIVE BitXor(_, _)
BitXor(a, b) ==
    IF a = 0 THEN b
    ELSE IF b = 0 THEN a
    ELSE (((a % 2) + (b % 2)) % 2) + 2 * BitXor(a \div 2, b \div 2)

\* Multiplication by x modulo the field polynomial x^8+x^4+x^3+x^2+1 (0x11D).
GalDouble(a) == IF 2 * a >= 256 THEN BitXor(2 * a, 285) ELSE 2 * a

RECURSIVE GalMulShift(_, _)
\* Shift-and-add multiplication, used to build the tables below.
GalMulShift(a, b) ==
    IF a = 0 \/ b = 0 THEN 0
    ELSE BitXor(IF b % 2 = 1 THEN a ELSE 0, GalMulShift(GalDouble(a), b \div 2))

RECURSIVE GalPow2(_)
\* 2^n in GF(2^8)
GalPow2(n) ==
    IF n = 0 THEN 1
    ELSE IF n % 2 = 1 THEN GalDouble(GalPow2(n - 1))
    ELSE LET h == GalPow2(n \div 2) IN GalMulShift(h, h)

RECURSIVE ExpSeq(_, _)
\* <<2^lo, ..., 2^hi>>
ExpSeq(lo, hi) ==
    IF lo = hi THEN <<GalPow2(lo)>>
    ELSE LET mid == (lo + hi) \div 2 IN ExpSeq(lo, mid) \o ExpSeq(mid + 1, hi)

\* The exponent table of the field: GalExpTable[i + 1] = 2^i.
GalExpTable == ExpSeq(0, 254)

RECURSIVE LogSeq(_, _)
LogSeq(lo, hi) ==
    IF lo = hi THEN <<CHOOSE i \in 0..254 : GalExpTable[i + 1] = lo>>
    ELSE LET mid == (lo + hi) \div 2 IN LogSeq(lo, mid) \o LogSeq(mid + 1, hi)

\* The logarithm table of the field: 2^GalLogTable[a] = a, for a in 1..255.
GalLogTable == LogSeq(1, 255)

GalMul(a, b) ==
    IF a = 0 \/ b = 0 THEN 0
    ELSE GalExpTable[((GalLogTable[a] + GalLogTable[b]) % 255) + 1]

\* The multiplicative inverse of a # 0.
GalInv(a) == GalExpTable[((255 - GalLogTable[a]) % 255) + 1]

-----------------------------------------------------------------------------
(* github.com/klauspost/reedsolomon as FEC uses it.  The encoding matrix   *)
(* is vandermonde(total, data) times the inverse of its top square, so     *)
(* shard r of a column is the value at point r of the polynomial of degree *)
(* < dataShards through the points (i, data[i]); Reconstruct interpolates  *)
(* the same polynomial from the first dataShards shards that are present.  *)

Nil == <<>>

RECURSIVE LagrangeProd(_, _, _, _)
\* prod over k in 1..n, k # j, of (x - xs[k]) / (xs[j] - xs[k]) in GF(2^8)
LagrangeProd(xs, j, x, n) ==
    IF n = 0 THEN 1
    ELSE IF n = j THEN LagrangeProd(xs, j, x, n - 1)
    ELSE GalMul(LagrangeProd(xs, j, x, n - 1),
                GalMul(BitXor(x, xs[n]), GalInv(BitXor(xs[j], xs[n]))))

RECURSIVE GalDot(_, _, _)
\* sum over j in 1..n of cs[j] * ys[j] in GF(2^8)
GalDot(cs, ys, n) ==
    IF n = 0 THEN 0
    ELSE BitXor(GalDot(cs, ys, n - 1), GalMul(cs[n], ys[n]))

RECURSIVE LagrangeRow(_, _, _)
\* <<c_1, ..., c_j>>: the weight of each source shard in the shard at point x
LagrangeRow(xs, x, j) ==
    IF j = 0 THEN <<>>
    ELSE Append(LagrangeRow(xs, x, j - 1), LagrangeProd(xs, j, x, Len(xs)))

\* The shard at point x, from the shards at the points xs (src[k] at xs[k]).
Interpolate(xs, src, x, size) ==
    LET n  == Len(xs)
        cs == LagrangeRow(xs, x, n)
    IN  [c \in 1..size |-> GalDot(cs, [j \in 1..n |-> src[j][c]], n)]

\* reedsolomon.New: whether it returns an encoder.  Up to 256 shards every
\* release builds the GF(2^8) code; beyond 256 a release either fails with
\* ErrMaxShardNum or switches to its GF(2^16) code, depending on its version.
RSNewOutcomes(d, p) ==
    IF d <= 0 \/ p < 0 THEN {FALSE}
    ELSE IF d + p <= 256 THEN {TRUE}
    ELSE {FALSE, TRUE}

\* Encoder.Encode: fills the parity shards from the data shards.
RSEncode(d, p, shards) ==
    LET xs   == [i \in 1..d |-> i - 1]
        size == Len(shards[1])
    IN  [i \in 1..(d + p) |->
            IF i <= d THEN shards[i]
            ELSE Interpolate(xs, [k \in 1..d |-> shards[k]], i - 1, size)]

RECURSIVE FirstPresent(_, _, _)
\* the indices of the first n shards of length > 0, from index i on
FirstPresent(shards, i, n) ==
    IF n = 0 \/ i > Len(shards) THEN <<>>
    ELSE IF Len(shards[i]) > 0
         THEN <<i>> \o FirstPresent(shards, i + 1, n - 1)
         ELSE FirstPresent(shards, i + 1, n)

\* Encoder.Reconstruct: rebuilds every missing (nil or empty) shard in place.
RSReconstruct(d, p, shards) ==
    LET here  == {i \in 1..Len(shards) : Len(shards[i]) > 0}
        sizes == {Len(shards[i]) : i \in here}
    IN  IF Len(shards) # d + p THEN [shards |-> shards, err |-> "ErrTooFewShards"]
        ELSE IF here = {} THEN [shards |-> shards, err |-> "ErrShardNoData"]
        ELSE IF Cardinality(sizes) > 1 THEN [shards |-> shards, err |-> "ErrShardSize"]
        ELSE IF Cardinality(here) = d + p THEN [shards |-> shards, err |-> "nil"]
        ELSE IF Cardinality(here) < d THEN [shards |-> shards, err |-> "ErrTooFewShards"]
        ELSE LET idx  == FirstPresent(shards, 1, d)
                 xs   == [k \in 1..d |-> idx[k] - 1]
                 src  == [k \in 1..d |-> shards[idx[k]]]
                 size == CHOOSE s \in sizes : TRUE
             IN  [shards |-> [i \in 1..(d + p) |->
                                 IF i \in here THEN shards[i]
                                 ELSE Interpolate(xs, src, i - 1, size)],
                  err |-> "nil"]

-----------------------------------------------------------------------------
(* pkg/fec: NewFEC, Encode, Decode.                                        *)

NoFEC == [dataShards |-> 0, parityShards |-> 0, shardSize |-> 0]

\* NewFEC: whether it returns an FEC for these parameters.
NewFECOutcomes(d, p, s) ==
    IF d <= 0 \/ p <= 0 THEN {FALSE}
    ELSE IF s <= 0 THEN {FALSE}
    ELSE RSNewOutcomes(d, p)

\* Mutant: Encode does not raise the shard size to f.shardSize.
EncodeShardSize_NoAlign(f, n) == (n + f.dataShards - 1) \div f.dataShards

\* The shard size Encode picks for a payload of n bytes.
EncodeShardSize(f, n) ==
    LET need == (n + f.dataShards - 1) \div f.dataShards
    IN  IF f.shardSize > 0 /\ need < f.shardSize THEN f.shardSize ELSE need

\* The data shards Encode cuts the payload into, the last ones zero-padded.
SplitData(f, data, shardSize) ==
    [i \in 1..f.dataShards |->
        [j \in 1..shardSize |->
            LET k == (i - 1) * shardSize + j
            IN  IF k <= Len(data) THEN data[k] ELSE 0]]

Encode(f, data) ==
    IF Len(data) = 0 THEN [shards |-> Nil, err |-> "empty data"]
    ELSE LET shardSize == EncodeShardSize(f, Len(data))
             dataPart  == SplitData(f, data, shardSize)
             blank     == [i \in 1..(f.dataShards + f.parityShards) |->
                              IF i <= f.dataShards THEN dataPart[i]
                              ELSE [j \in 1..shardSize |-> 0]]
         IN  [shards |-> RSEncode(f.dataShards, f.parityShards, blank),
              err |-> "nil"]

RECURSIVE Concat(_, _)
\* shards[1] \o ... \o shards[n]
Concat(shards, n) ==
    IF n = 0 THEN <<>> ELSE Concat(shards, n - 1) \o shards[n]

\* Mutant: Decode without the test of the number of shards present.
TooFewPresent_Never(f, presentCount) == FALSE

\* Decode's "presentCount < f.dataShards" test.
TooFewPresent(f, presentCount) == presentCount < f.dataShards

\* Mutant: Decode leaves the shards marked missing as they are.
MarkMissing_Keep(shards, present) == shards

\* Decode's loop that sets the shards marked missing to nil.
MarkMissing(shards, present) ==
    [i \in 1..Len(shards) |-> IF ~present[i] THEN Nil ELSE shards[i]]

\* Mutant: a failed reconstruction is always reported as ErrUnrecoverable.
ReconstructError_AlwaysUnrecoverable(f, presentCount) == "ErrUnrecoverable"

\* The error Decode returns when Reconstruct fails.
ReconstructError(f, presentCount) ==
    IF presentCount = f.dataShards + f.parityShards
    THEN "ErrUnrecoverable" ELSE "ErrIncomplete"

\* Decode: [data, err, shards] (shards: the caller's slice, changed in place).
Decode(f, shards, present) ==
    LET total        == f.dataShards + f.parityShards
        presentCount == Cardinality({i \in 1..Len(present) : present[i]})
        valid        == {i \in 1..Len(shards) : present[i] /\ Len(shards[i]) > 0}
        shardSize    == IF valid = {} THEN 0
                        ELSE Len(shards[CHOOSE i \in valid : \A k \in valid : i <= k])
        fail(e, sh)  == [data |-> Nil, err |-> e, shards |-> sh]
    IN  IF Len(shards) # total THEN fail("incorrect number of shards", shards)
        ELSE IF Len(present) # Len(shards) THEN fail("shardPresent length mismatch", shards)
        ELSE IF TooFewPresent(f, presentCount) THEN fail("ErrIncomplete", shards)
        ELSE IF shardSize = 0 THEN fail("no valid shards", shards)
        ELSE IF \E i \in valid : Len(shards[i]) # shardSize
             THEN fail("inconsistent shard size", shards)
        ELSE LET marked == MarkMissing(shards, present)
                 rec    == RSReconstruct(f.dataShards, f.parityShards, marked)
             IN  IF rec.err # "nil"
                 THEN fail(ReconstructError(f, presentCount), marked)
                 ELSE [data |-> Concat(rec.shards, f.dataShards),
                       err |-> "nil", shards |-> rec.shards]

-----------------------------------------------------------------------------
(* SpecFEC: one FEC, one block through a lossy channel.                    *)

\* Payloads: three byte patterns of each length.
PayloadOf(n, k) ==
    [i \in 1..n |-> IF k = 1 THEN (37 * i + 1) % 256
                    ELSE IF k = 2 THEN 255
                    ELSE IF i = n THEN 0 ELSE 170]

FecIdle ==
    /\ fecPc = "new"
    /\ fec = NoFEC
    /\ fecData = <<>>
    /\ fecShards = <<>>
    /\ fecPresent = <<>>
    /\ fecOut = [data |-> Nil, err |-> "none"]

FecNew(d, p, s) ==
    /\ fecPc = "new"
    /\ \E ok \in NewFECOutcomes(d, p, s) :
           IF ok
           THEN /\ fec' = [dataShards |-> d, parityShards |-> p, shardSize |-> s]
                /\ fecPc' = "ready"
           ELSE /\ fec' = NoFEC
                /\ fecPc' = "rejected"
    /\ UNCHANGED <<fecData, fecShards, fecPresent, fecOut>>
    /\ UNCHANGED otherThanFec

FecEncode(data) ==
    /\ fecPc = "ready"
    /\ LET r == Encode(fec, data)
       IN  /\ fecShards' = r.shards
           /\ fecPc' = IF r.err = "nil" THEN "encoded" ELSE "rejected"
    /\ fecData' = data
    /\ UNCHANGED <<fec, fecPresent, fecOut>>
    /\ UNCHANGED otherThanFec

\* The channel loses the shards in lost; the receiver's slot of a lost shard is
\* nil, or still holds the bytes of an older block (stale).
FecChannel(lost, stale) ==
    /\ fecPc = "encoded"
    /\ fecShards' = [i \in 1..Len(fecShards) |->
                        IF i \in lost
                        THEN IF stale THEN [j \in 1..Len(fecShards[i]) |-> 238] ELSE Nil
                        ELSE fecShards[i]]
    /\ fecPresent' = [i \in 1..Len(fecShards) |-> i \notin lost]
    /\ fecPc' = "received"
    /\ UNCHANGED <<fec, fecData, fecOut>>
    /\ UNCHANGED otherThanFec

FecDecode ==
    /\ fecPc = "received"
    /\ LET r == Decode(fec, fecShards, fecPresent)
       IN  /\ fecOut' = [data |-> r.data, err |-> r.err]
           /\ fecShards' = r.shards
    /\ fecPc' = "decoded"
    /\ UNCHANGED <<fec, fecData, fecPresent>>
    /\ UNCHANGED otherThanFec

NextFEC ==
    \/ \E d \in 0..MaxD, p \in 0..MaxP, s \in 0..MaxS : FecNew(d, p, s)
    \/ \E n \in 0..(fec.dataShards * fec.shardSize + 1), k \in 1..NumPatterns :
           FecEncode(PayloadOf(n, k))
    \/ \E lost \in SUBSET (1..Len(fecShards)), stale \in BOOLEAN :
           FecChannel(lost, stale)
    \/ FecDecode

\* The caller hands Decode a nil shard although the mask marks it present:
\* Decode's loops test "shardPresent[i] && shards[i] != nil".
FecNilPresent(i) ==
    /\ fecPc = "received"
    /\ i \in 1..Len(fecShards)
    /\ fecPresent[i]
    /\ fecShards[i] # Nil
    /\ fecShards' = [fecShards EXCEPT ![i] = Nil]
    /\ UNCHANGED <<fecPc, fec, fecData, fecPresent, fecOut>>
    /\ UNCHANGED otherThanFec

\* The FEC, or the error, is dropped; NewFEC may be called again.
FecDiscard ==
    /\ fecPc \in {"ready", "rejected"}
    /\ fecPc' = "new"
    /\ fec' = NoFEC
    /\ UNCHANGED <<fecData, fecShards, fecPresent, fecOut>>
    /\ UNCHANGED otherThanFec

\* NewFEC alone, on shard counts around the limits.
ShardCounts == {-1, 0, 1, 2, 127, 128, 129, 254, 255, 256, 257}
ShardSizes == {0, 1, 1200}

NextFECNew ==
    \/ \E d \in ShardCounts, p \in ShardCounts, s \in ShardSizes : FecNew(d, p, s)
    \/ FecDiscard

\* Decode called with any slice and mask, not only what the channel delivered.
NextFECDecode ==
    \/ \E d \in 0..MaxD, p \in 0..MaxP, s \in 0..MaxS : FecNew(d, p, s)
    \/ \E n \in 0..(fec.dataShards * fec.shardSize + 1), k \in 1..NumPatterns :
           FecEncode(PayloadOf(n, k))
    \/ \E lost \in SUBSET (1..Len(fecShards)), stale \in BOOLEAN :
           FecChannel(lost, stale)
    \/ \E i \in 1..(MaxD + MaxP) : FecNilPresent(i)
    \/ FecDecode

-----------------------------------------------------------------------------
(* pkg/iptables: the rule strings.                                         *)

Ports == {7001}
Conns == {1}            \* a (localIP, localPort, remoteIP, remotePort) tuple
Goroutines == {1, 2}

\* "OUTPUT -p tcp --tcp-flags RST RST --sport <port> -j DROP"
PortRule(port) == <<"sport", port>>
\* "OUTPUT -p tcp --tcp-flags RST RST --dport <port> -j DROP"
DportRule(port) == <<"dport", port>>
\* "OUTPUT -p tcp --tcp-flags RST RST -s <ip> --sport <p> -d <ip> --dport <p> -j DROP"
ConnRule(c) == <<"conn", c>>
\* a rule string of the caller's own, for AddCustomRule
CustomRule == <<"custom", 0>>

\* The rules this package ever adds to the chain.
RuleStrings ==
    {PortRule(p) : p \in Ports} \cup {ConnRule(c) : c \in Conns} \cup {CustomRule}

\* The rule AddRuleForPort builds: the same string for server and client.
RuleForPort(port, isServer) ==
    IF isServer THEN PortRule(port) ELSE PortRule(port)

\* The rules AddRuleForConnection builds: one string either way.
RulesForConnection(c, isServer) ==
    IF isServer THEN <<ConnRule(c)>> ELSE <<ConnRule(c)>>

\* Mutant: ClearAllRules forgets the --sport rule.
ClearRules_DportOnly(port) == <<DportRule(port)>>

\* The rules ClearAllRules tries to delete.
ClearRules(port) == <<PortRule(port), DportRule(port)>>

Occurrences(list, r) == Cardinality({i \in 1..Len(list) : list[i] = r})

-----------------------------------------------------------------------------
(* The iptables binary.  What a command does to the table and what it      *)
(* reports; a command may also fail although it applies (the xtables lock  *)
(* is held, the privilege is gone), which leaves the table unchanged.      *)

\* The text iptables -D prints for a rule that is not in the chain.  Which of
\* the two appears is the binary's choice; ClearAllRules looks for the second.
AbsentOutputs == {"Bad rule (does a matching rule exist in that chain?)",
                  "No chain/target/match by that name"}
\* The text of a command that fails for another reason.
OtherOutput == "Another app is currently holding the xtables lock"

\* The copies of rule r in the chain.
Copies(tbl, r) == IF r \in DOMAIN tbl THEN tbl[r] ELSE 0

\* Mutant: the existence check never finds the rule.
CheckOutcomes_NeverExists(tbl, r) == {[exists |-> FALSE, envFail |-> FALSE]}

\* iptables -C rule: [exists, envFail]
CheckOutcomes(tbl, r) ==
    IF Copies(tbl, r) > 0
    THEN {[exists |-> TRUE, envFail |-> FALSE], [exists |-> FALSE, envFail |-> TRUE]}
    ELSE {[exists |-> FALSE, envFail |-> FALSE]}

\* iptables -A rule: [ok, table, envFail]
AppendOutcomes(tbl, r) ==
    {[ok |-> FALSE, table |-> tbl, envFail |-> TRUE]}
        \cup (IF Copies(tbl, r) < MaxCopies
              THEN {[ok |-> TRUE, table |-> [tbl EXCEPT ![r] = @ + 1],
                     envFail |-> FALSE]}
              ELSE {})

\* iptables -D rule: [ok, table, output, envFail]
DeleteOutcomes(tbl, r) ==
    IF Copies(tbl, r) > 0
    THEN {[ok |-> TRUE, table |-> [tbl EXCEPT ![r] = @ - 1], output |-> "",
           envFail |-> FALSE],
          [ok |-> FALSE, table |-> tbl, output |-> OtherOutput, envFail |-> TRUE]}
    ELSE {[ok |-> FALSE, table |-> tbl, output |-> o, envFail |-> FALSE] :
              o \in AbsentOutputs}

-----------------------------------------------------------------------------
(* pkg/iptables: IPTablesManager.                                          *)

\* A call's locals: todo/idx the rules of an add and the loop position, log the
\* last line an add logged; of RemoveAllRules, n the length of m.rules at entry,
\* att the deletions run, fails those that failed, errs len(errors).
IdleCall == [pc |-> "idle", name |-> "", todo |-> <<>>, idx |-> 0, log |-> "",
             n |-> 0, att |-> 0, fails |-> 0, errs |-> 0, ret |-> ""]
NoRecov == [st |-> "none", port |-> 0]
IdleClear == [pc |-> "idle", port |-> 0, errs |-> 0, absent |-> 0, other |-> 0,
              ret |-> ""]

FwIdle ==
    /\ table = [r \in RuleStrings |-> 0]
    /\ rules = <<>>
    /\ mu = 0
    /\ gor = [g \in Goroutines |-> IdleCall]
    /\ clr = IdleClear
    /\ fwAdded = {}
    /\ fwEnvFail = FALSE
    /\ fwDelRan = FALSE
    /\ fwCrashes = 0
    /\ fwRecov = NoRecov

\* m.mu.Lock() returns only while no goroutine holds the mutex.
CanLock(g) == mu = 0

\* Mutant: an added rule replaces the list instead of extending it.
RulesAfterAdd_Replace(list, r) == <<r>>

\* Mutant: an added rule is not recorded.
RulesAfterAdd_Forget(list, r) == list

\* m.rules after "m.rules = append(m.rules, rule)".
RulesAfterAdd(list, r) == Append(list, r)

\* Mutant: the list is kept when a deletion failed.
RulesAfterRemove_KeepOnError(list, errs) == IF errs > 0 THEN list ELSE <<>>

\* m.rules after RemoveAllRules' "m.rules = make([]string, 0)".
RulesAfterRemove(list, errs) == <<>>

\* Mutant: the loop stops at the first failed deletion ("break").
RemoveLoopDone_BreakOnError(idx, errs, n) == idx > n \/ errs > 0

\* RemoveAllRules' loop over m.rules ends after the last rule ("continue" on error).
RemoveLoopDone(idx, errs, n) == idx > n

\* The error RemoveAllRules and ClearAllRules return: "len(errors) > 0".
AggregateError(errs) == IF errs > 0 THEN "error" ELSE "nil"

\* ClearAllRules counts a failed deletion unless its output holds this text.
IgnoredByClear(output) == output = "No chain/target/match by that name"

OthersIdle(g) == \A h \in Goroutines \ {g} : gor[h].pc = "idle"

\* A call on the manager begins: the mutex is taken (it is released by the
\* deferred Unlock when the call returns).
BeginAdd(g, name, todo) ==
    /\ gor[g].pc = "idle"
    /\ CanLock(g)
    /\ Len(rules) + Len(todo) <= MaxRules
    /\ mu' = g
    /\ gor' = [gor EXCEPT ![g] = [IdleCall EXCEPT !.pc = "check", !.name = name,
                                                  !.todo = todo, !.idx = 1]]
    /\ fwRecov' = IF /\ fwRecov.st = "cleared"
                     /\ name = "AddRuleForPort"
                     /\ todo = <<PortRule(fwRecov.port)>>
                     /\ OthersIdle(g)
                  THEN [fwRecov EXCEPT !.st = "adding"] ELSE NoRecov
    /\ UNCHANGED <<table, rules, clr, fwAdded, fwEnvFail, fwDelRan, fwCrashes>>
    /\ UNCHANGED otherThanFw

AddRuleForPort(g, port, isServer) ==
    BeginAdd(g, "AddRuleForPort", <<RuleForPort(port, isServer)>>)

AddRuleForConnection(g, c, isServer) ==
    BeginAdd(g, "AddRuleForConnection", RulesForConnection(c, isServer))

AddCustomRule(g, rule) ==
    BeginAdd(g, "AddCustomRule", <<rule>>)

\* One step of an add call: "if m.ruleExists(rule)" and, when it answers no,
\* the iptables -A and the append to m.rules.
AddStep(g) ==
    /\ gor[g].pc = "check"
    /\ LET c    == gor[g]
           r    == c.todo[c.idx]
           last == c.idx = Len(c.todo)
           done(ret, l) == [c EXCEPT !.pc = "unlock", !.ret = ret, !.log = l]
           more(l)      == [c EXCEPT !.idx = @ + 1, !.log = l]
       IN  \E chk \in CheckOutcomes(table, r) :
             IF chk.exists
             THEN /\ gor' = [gor EXCEPT ![g] = IF last THEN done("nil", "exists")
                                                ELSE more("exists")]
                  /\ fwEnvFail' = (fwEnvFail \/ chk.envFail)
                  /\ UNCHANGED <<table, rules, fwAdded>>
             ELSE \E app \in AppendOutcomes(table, r) :
                    /\ table' = app.table
                    /\ fwEnvFail' = (fwEnvFail \/ chk.envFail \/ app.envFail)
                    /\ IF app.ok
                       THEN /\ rules' = RulesAfterAdd(rules, r)
                            /\ fwAdded' = fwAdded \cup {r}
                            /\ gor' = [gor EXCEPT ![g] =
                                          IF last THEN done("nil", "added")
                                          ELSE more("added")]
                       ELSE /\ gor' = [gor EXCEPT ![g] = done("error", c.log)]
                            /\ UNCHANGED <<rules, fwAdded>>
    /\ fwRecov' = IF fwRecov.st = "adding" /\ gor'[g].pc = "unlock"
                  THEN [fwRecov EXCEPT !.st = "done"] ELSE fwRecov
    /\ UNCHANGED <<mu, clr, fwDelRan, fwCrashes>>
    /\ UNCHANGED otherThanFw

RemoveAllRules(g) ==
    /\ gor[g].pc = "idle"
    /\ CanLock(g)
    /\ mu' = g
    /\ gor' = [gor EXCEPT ![g] = [IdleCall EXCEPT !.pc = "remove",
                                     !.name = "RemoveAllRules", !.idx = 1,
                                     !.n = Len(rules)]]
    /\ fwRecov' = NoRecov
    /\ UNCHANGED <<table, rules, clr, fwAdded, fwEnvFail, fwDelRan, fwCrashes>>
    /\ UNCHANGED otherThanFw

\* One pass of RemoveAllRules' loop: iptables -D of m.rules[idx].
RemoveStep(g) ==
    /\ gor[g].pc = "remove"
    /\ ~RemoveLoopDone(gor[g].idx, gor[g].errs, Len(rules))
    /\ \E del \in DeleteOutcomes(table, rules[gor[g].idx]) :
         /\ table' = del.table
         /\ fwEnvFail' = (fwEnvFail \/ del.envFail)
         /\ fwDelRan' = (fwDelRan \/ del.ok)
         /\ gor' = [gor EXCEPT ![g].idx = @ + 1,
                               ![g].att = @ + 1,
                               ![g].fails = IF del.ok THEN @ ELSE @ + 1,
                               ![g].errs = IF del.ok THEN @ ELSE @ + 1]
    /\ UNCHANGED <<rules, mu, clr, fwAdded, fwCrashes, fwRecov>>
    /\ UNCHANGED otherThanFw

\* After the loop: the list is reset and the aggregate error is built.
RemoveEnd(g) ==
    /\ gor[g].pc = "remove"
    /\ RemoveLoopDone(gor[g].idx, gor[g].errs, Len(rules))
    /\ rules' = RulesAfterRemove(rules, gor[g].errs)
    /\ gor' = [gor EXCEPT ![g].pc = "unlock", ![g].ret = AggregateError(gor[g].errs)]
    /\ UNCHANGED <<table, mu, clr, fwAdded, fwEnvFail, fwDelRan, fwCrashes, fwRecov>>
    /\ UNCHANGED otherThanFw

\* The deferred m.mu.Unlock(): the call returns.
Unlock(g) ==
    /\ gor[g].pc = "unlock"
    /\ mu' = 0
    /\ gor' = [gor EXCEPT ![g] = IdleCall]
    /\ fwRecov' = IF fwRecov.st = "done" THEN NoRecov ELSE fwRecov
    /\ UNCHANGED <<table, rules, clr, fwAdded, fwEnvFail, fwDelRan, fwCrashes>>
    /\ UNCHANGED otherThanFw

-----------------------------------------------------------------------------
(* pkg/iptables: ClearAllRules, a function of the package (no manager, no  *)
(* mutex).                                                                 *)

RECURSIVE ClearRuns(_, _, _)
\* ClearAllRules' loop from rule idx on, from the state acc = [table, errs,
\* absent, other, removed]: every way the deletions can go.
ClearRuns(list, idx, acc) ==
    IF idx > Len(list) THEN {acc}
    ELSE UNION {ClearRuns(list, idx + 1,
                    [table   |-> del.table,
                     errs    |-> IF ~del.ok /\ ~IgnoredByClear(del.output)
                                 THEN acc.errs + 1 ELSE acc.errs,
                     absent  |-> IF ~del.ok /\ ~del.envFail
                                 THEN acc.absent + 1 ELSE acc.absent,
                     other   |-> IF ~del.ok /\ del.envFail
                                 THEN acc.other + 1 ELSE acc.other,
                     removed |-> acc.removed \/ del.ok]) :
                del \in DeleteOutcomes(acc.table, list[idx])}

\* ClearAllRules(port): iptables -D of each rule, an error kept unless the
\* output holds "No chain/target/match"; then the aggregate error.
ClearAllRules(port) ==
    /\ clr.pc = "idle"
    /\ \E run \in ClearRuns(ClearRules(port), 1,
                     [table |-> table, errs |-> 0, absent |-> 0, other |-> 0,
                      removed |-> FALSE]) :
         /\ table' = run.table
         /\ clr' = [pc |-> "ret", port |-> port, errs |-> run.errs,
                    absent |-> run.absent, other |-> run.other,
                    ret |-> AggregateError(run.errs)]
         /\ fwEnvFail' = (fwEnvFail \/ run.other > 0)
         /\ fwDelRan' = (fwDelRan \/ run.removed)
    /\ fwRecov' = IF /\ fwRecov.st = "crashed"
                     /\ fwRecov.port = port
                     /\ \A g \in Goroutines : gor[g].pc = "idle"
                  THEN [fwRecov EXCEPT !.st = "cleared"] ELSE NoRecov
    /\ UNCHANGED <<rules, mu, gor, fwAdded, fwCrashes>>
    /\ UNCHANGED otherThanFw

\* The caller has taken ClearAllRules' result.
ClearReturn ==
    /\ clr.pc = "ret"
    /\ clr' = IdleClear
    /\ UNCHANGED <<table, rules, mu, gor, fwAdded, fwEnvFail, fwDelRan, fwCrashes, fwRecov>>
    /\ UNCHANGED otherThanFw

\* The session is killed (no RemoveAllRules runs) and a new session starts with
\* a fresh manager; the kernel's table stays as it is.
Crash ==
    /\ fwCrashes < MaxCrashes
    /\ fwCrashes' = fwCrashes + 1
    /\ rules' = <<>>
    /\ mu' = 0
    /\ gor' = [g \in Goroutines |-> IdleCall]
    /\ clr' = IdleClear
    /\ fwAdded' = {}
    /\ fwEnvFail' = FALSE
    /\ fwDelRan' = FALSE
    /\ LET left == {p \in Ports : /\ Occurrences(rules, PortRule(p)) = 1
                                  /\ table[PortRule(p)] = 1}
       IN  fwRecov' = IF left # {}
                      THEN [st |-> "crashed", port |-> CHOOSE p \in left : TRUE]
                      ELSE NoRecov
    /\ UNCHANGED table
    /\ UNCHANGED otherThanFw

\* The calls on one manager, from two goroutines.
NextFW ==
    \/ \E g \in Goroutines, p \in Ports, srv \in BOOLEAN : AddRuleForPort(g, p, srv)
    \/ \E g \in Goroutines, c \in Conns, srv \in BOOLEAN : AddRuleForConnection(g, c, srv)
    \/ \E g \in Goroutines, r \in {CustomRule} \cup {PortRule(p) : p \in Ports} :
           AddCustomRule(g, r)
    \/ \E g \in Goroutines : AddStep(g)
    \/ \E g \in Goroutines : RemoveAllRules(g)
    \/ \E g \in Goroutines : RemoveStep(g)
    \/ \E g \in Goroutines : RemoveEnd(g)
    \/ \E g \in Goroutines : Unlock(g)

\* Sessions that are killed and restarted: one goroutine drives the manager,
\* ClearAllRules runs beside it.
MainGoroutine == {1}

NextFWRecovery ==
    \/ \E g \in MainGoroutine, p \in Ports, srv \in BOOLEAN : AddRuleForPort(g, p, srv)
    \/ \E g \in MainGoroutine, c \in Conns, srv \in BOOLEAN :
           AddRuleForConnection(g, c, srv)
    \/ \E g \in MainGoroutine, r \in {CustomRule} \cup {PortRule(p) : p \in Ports} :
           AddCustomRule(g, r)
    \/ \E g \in MainGoroutine : AddStep(g)
    \/ \E g \in MainGoroutine : RemoveAllRules(g)
    \/ \E g \in MainGoroutine : RemoveStep(g)
    \/ \E g \in MainGoroutine : RemoveEnd(g)
    \/ \E g \in MainGoroutine : Unlock(g)
    \/ \E p \in Ports : ClearAllRules(p)
    \/ ClearReturn
    \/ Crash

-----------------------------------------------------------------------------
(* pkg/rawsocket: packet construction, checksums, RecvPacket.  A []byte is  *)
(* a sequence of 0..255; Go's index i is index i + 1 here.                  *)

IPPROTO_TCP == 6
IP_DF == 16384
TCPHeaderSize == 20
IPHeaderSize == 20

\* binary.BigEndian.PutUint16 / PutUint32 / Uint16 / Uint32.  A uint32 is kept
\* as its two 16-bit halves <<high, low>>: TLC's integers end at 2^31 - 1.
PutUint16(v) == <<(v \div 256) % 256, v % 256>>
PutUint32(v) == PutUint16(v[1]) \o PutUint16(v[2])
Uint16(b, i) == b[i] * 256 + b[i + 1]
Uint32(b, i) == <<Uint16(b, i), Uint16(b, i + 2)>>

\* make([]byte, n)
Zeros(n) == [i \in 1..n |-> 0]

\* copy(b[i-1:], bytes)
PutAt(b, i, bytes) ==
    [k \in 1..Len(b) |-> IF k >= i /\ k < i + Len(bytes) THEN bytes[k - i + 1] ELSE b[k]]

\* CalculateChecksum's first loop: the uint32 sum of the 16-bit words.  The sum
\* of fewer than 2^15 words stays below 2^31, so a uint32 cannot wrap on any
\* data of up to 65535 bytes.
RECURSIVE SumWords(_, _)
SumWords(data, i) ==
    IF i >= Len(data) THEN 0
    ELSE Uint16(data, i) + SumWords(data, i + 2)

\* The uint32 sum before folding: the words, then the odd byte as a high byte.
ChecksumSum(data) ==
    LET odd == IF Len(data) % 2 = 1 THEN data[Len(data)] * 256 ELSE 0
    IN  SumWords(data, 1) + odd

\* "for sum>>16 != 0 { sum = (sum & 0xFFFF) + (sum >> 16) }"
RECURSIVE FoldSum(_)
FoldSum(sum) ==
    IF sum \div 65536 # 0 THEN FoldSum((sum % 65536) + (sum \div 65536)) ELSE sum

\* "^uint16(sum)" of the folded sum
CalculateChecksum(data) == 65535 - (FoldSum(ChecksumSum(data)) % 65536)

\* net.IP: 4 bytes, or 16 bytes; an IPv4 address in 16 bytes carries this prefix.
v4InV6Prefix == <<0, 0, 0, 0, 0, 0, 0, 0, 0, 0, 255, 255>>

\* net.IP.To4: the 4-byte form of an IPv4 address, nil for anything else.
To4(ip) ==
    IF Len(ip) = 4 THEN ip
    ELSE IF Len(ip) = 16 /\ SubSeq(ip, 1, 12) = v4InV6Prefix THEN SubSeq(ip, 13, 16)
    ELSE <<>>

\* net.IPv4: the 16-byte form of the address a.b.c.d.
IPv4(abcd) == v4InV6Prefix \o abcd

\* net.IP.Equal: an IPv4 address and its 16-byte form are the same address.
IPEqual(x, y) ==
    IF Len(x) = Len(y) THEN x = y
    ELSE IF Len(x) = 4 /\ Len(y) = 16
         THEN SubSeq(y, 1, 12) = v4InV6Prefix /\ SubSeq(y, 13, 16) = x
    ELSE IF Len(x) = 16 /\ Len(y) = 4
         THEN SubSeq(x, 1, 12) = v4InV6Prefix /\ SubSeq(x, 13, 16) = y
    ELSE FALSE

\* "copy(header[12:16], ip.To4())" into four zero bytes: nil copies nothing.
CopyTo4(ip) == IF To4(ip) = <<>> THEN <<0, 0, 0, 0>> ELSE To4(ip)

\* The 12-byte pseudo header CalculateTCPChecksum builds.
PseudoHeader(srcIP, dstIP, tcpLen) ==
    CopyTo4(srcIP) \o CopyTo4(dstIP) \o <<0, IPPROTO_TCP>> \o PutUint16(tcpLen % 65536)

\* Mutant: the pseudo header carries no TCP length.
CalculateTCPChecksum_NoLength(srcIP, dstIP, tcpHeader, payload) ==
    CalculateChecksum(PseudoHeader(srcIP, dstIP, 0) \o tcpHeader \o payload)

CalculateTCPChecksum(srcIP, dstIP, tcpHeader, payload) ==
    CalculateChecksum(PseudoHeader(srcIP, dstIP, Len(tcpHeader) + Len(payload))
                      \o tcpHeader \o payload)

BuildIPHeader(srcIP, dstIP, protocol, payloadLen) ==
    LET totalLen == IPHeaderSize + payloadLen
        header   == <<69, 0>> \o PutUint16(totalLen % 65536) \o PutUint16(12345)
                    \o PutUint16(IP_DF) \o <<64, protocol, 0, 0>>
                    \o CopyTo4(srcIP) \o CopyTo4(dstIP)
    IN  PutAt(header, 11, PutUint16(CalculateChecksum(header)))

\* BuildTCPHeader's padding of the options to a 4-byte boundary.
PadOptions(options) ==
    IF Len(options) % 4 # 0 THEN options \o Zeros(4 - (Len(options) % 4)) ELSE options

BuildTCPHeader(srcPort, dstPort, seq, ack, flags, window, options) ==
    LET opts       == PadOptions(options)
        headerLen  == TCPHeaderSize + Len(opts)
        dataOffset == (headerLen \div 4) % 256
    IN  PutUint16(srcPort) \o PutUint16(dstPort) \o PutUint32(seq) \o PutUint32(ack)
        \o <<(dataOffset * 16) % 256, flags>> \o PutUint16(window)
        \o <<0, 0, 0, 0>> \o opts

\* The packet SendPacket hands to Sendto.
BuildPacket(srcIP, srcPort, dstIP, dstPort, seq, ack, flags, tcpOptions, payload) ==
    LET tcpHeader0 == BuildTCPHeader(srcPort, dstPort, seq, ack, flags, 65535, tcpOptions)
        checksum   == CalculateTCPChecksum(srcIP, dstIP, tcpHeader0, payload)
        tcpHeader  == PutAt(tcpHeader0, 17, PutUint16(checksum))
        ipHeader   == BuildIPHeader(srcIP, dstIP, IPPROTO_TCP, Len(tcpHeader) + Len(payload))
    IN  ipHeader \o tcpHeader \o payload

\* RecvPacket's error returns: nil and zero fields, and the error.
RecvError(n, msg) ==
    [srcIP |-> <<>>, srcPort |-> 0, dstIP |-> <<>>, dstPort |-> 0, seq |-> <<0, 0>>,
     ack |-> <<0, 0>>, flags |-> 0, payload |-> <<>>, err |-> msg, n |-> n]

\* Mutant: RecvPacket takes the payload to start right after the 20 fixed bytes
\* of the TCP header, whatever the data offset says.
ParsePacket_FixedHeader(buf, n) ==
    IF n < IPHeaderSize + TCPHeaderSize THEN RecvError(n, "packet too small")
    ELSE LET ihl == (buf[1] % 16) * 4 IN
         IF ihl > n THEN RecvError(n, "invalid IP header length")
         ELSE IF buf[10] # IPPROTO_TCP THEN RecvError(n, "not a TCP packet")
         ELSE IF n < ihl + TCPHeaderSize
              THEN RecvError(n, "packet too small for TCP header")
         ELSE LET tcpHeader    == SubSeq(buf, ihl + 1, ihl + TCPHeaderSize)
                  payloadStart == ihl + TCPHeaderSize
              IN  [srcIP   |-> IPv4(SubSeq(buf, 13, 16)),
                   srcPort |-> Uint16(tcpHeader, 1),
                   dstIP   |-> IPv4(SubSeq(buf, 17, 20)),
                   dstPort |-> Uint16(tcpHeader, 3),
                   seq     |-> Uint32(tcpHeader, 5),
                   ack     |-> Uint32(tcpHeader, 9),
                   flags   |-> tcpHeader[14],
                   payload |-> IF payloadStart < n
                               THEN SubSeq(buf, payloadStart + 1, n) ELSE <<>>,
                   err     |-> "nil",
                   n       |-> n]

\* RecvPacket once Recvfrom has stored the first n bytes of the datagram in buf.
ParsePacket(buf, n) ==
    IF n < IPHeaderSize + TCPHeaderSize THEN RecvError(n, "packet too small")
    ELSE LET ihl == (buf[1] % 16) * 4 IN
         IF ihl > n THEN RecvError(n, "invalid IP header length")
         ELSE IF buf[10] # IPPROTO_TCP THEN RecvError(n, "not a TCP packet")
         ELSE IF n < ihl + TCPHeaderSize
              THEN RecvError(n, "packet too small for TCP header")
         ELSE LET tcpHeader    == SubSeq(buf, ihl + 1, ihl + TCPHeaderSize)
                  dataOffset   == (tcpHeader[13] \div 16) * 4
                  payloadStart == ihl + dataOffset
              IN  [srcIP   |-> IPv4(SubSeq(buf, 13, 16)),
                   srcPort |-> Uint16(tcpHeader, 1),
                   dstIP   |-> IPv4(SubSeq(buf, 17, 20)),
                   dstPort |-> Uint16(tcpHeader, 3),
                   seq     |-> Uint32(tcpHeader, 5),
                   ack     |-> Uint32(tcpHeader, 9),
                   flags   |-> tcpHeader[14],
                   payload |-> IF payloadStart < n
                               THEN SubSeq(buf, payloadStart + 1, n) ELSE <<>>,
                   err     |-> "nil",
                   n       |-> n]

-----------------------------------------------------------------------------
(* SpecRS: one raw socket sends a packet; the peer's raw socket receives    *)
(* whatever datagram the network hands it.                                  *)

RsIPs == {<<10, 0, 0, 1>>, IPv4(<<192, 168, 255, 254>>)}
RsSrcPorts == {443, 65535}
RsDstPorts == {8080}
RsSeqs == {<<0, 0>>, <<65535, 65535>>}
RsAcks == {<<0, 1>>}
RsFlags == {2, 24}
RsPayloadBytes == {0, 255}
RsOptions == {[i \in 1..n |-> 1] : n \in 0..MaxOptLen}
RsPayloads == UNION {[1..n -> RsPayloadBytes] : n \in 0..MaxPayloadLen}
RsBufLens == {40, 1500}

\* What the network may do to a datagram before the raw socket reads it: the
\* socket receives every TCP datagram addressed to the host, from any sender.
RsTampers == {"none", "ihl0", "ihl6", "ihl15", "udp", "doff0", "doff15", "short"}

Tamper(d, t) ==
    CASE t = "none"   -> d
      [] t = "ihl0"   -> PutAt(d, 1, <<64>>)
      [] t = "ihl6"   -> PutAt(d, 1, <<70>>)
      [] t = "ihl15"  -> PutAt(d, 1, <<79>>)
      [] t = "udp"    -> PutAt(d, 10, <<17>>)
      [] t = "doff0"  -> PutAt(d, IPHeaderSize + 13, <<0>>)
      [] t = "doff15" -> PutAt(d, IPHeaderSize + 13, <<240>>)
      [] t = "short"  -> SubSeq(d, 1, IPHeaderSize + TCPHeaderSize - 1)

NoSend == [ret |-> "none", packet |-> <<>>]
NoRecv == [err |-> "none"]

RsIdle ==
    /\ rsPc = "idle"
    /\ rsSend = NoSend
    /\ rsWire = <<>>
    /\ rsRecv = NoRecv

SendPacket(srcIP, srcPort, dstIP, dstPort, seq, ack, flags, tcpOptions, payload, sendtoOk) ==
    /\ rsPc = "idle"
    /\ LET packet == BuildPacket(srcIP, srcPort, dstIP, dstPort, seq, ack, flags,
                                 tcpOptions, payload)
       IN  /\ rsSend' = [ret |-> IF sendtoOk THEN "nil" ELSE "failed to send packet",
                         packet |-> packet, srcIP |-> srcIP, srcPort |-> srcPort,
                         dstIP |-> dstIP, dstPort |-> dstPort, seq |-> seq,
                         ack |-> ack, flags |-> flags, tcpOptions |-> tcpOptions,
                         payload |-> payload]
           /\ rsWire' = IF sendtoOk THEN packet ELSE <<>>
    /\ rsPc' = "sent"
    /\ UNCHANGED rsRecv
    /\ UNCHANGED otherThanRs

Network(t) ==
    /\ rsPc = "sent"
    /\ rsWire # <<>>
    /\ rsWire' = Tamper(rsWire, t)
    /\ rsPc' = "wire"
    /\ UNCHANGED <<rsSend, rsRecv>>
    /\ UNCHANGED otherThanRs

RecvPacket(bufLen, recvfromOk) ==
    /\ rsPc = "wire"
    /\ LET n == IF Len(rsWire) < bufLen THEN Len(rsWire) ELSE bufLen
       IN  rsRecv' = IF recvfromOk THEN ParsePacket(SubSeq(rsWire, 1, n), n)
                     ELSE RecvError(0, "failed to receive packet")
    /\ rsPc' = "recvd"
    /\ UNCHANGED <<rsSend, rsWire>>
    /\ UNCHANGED otherThanRs

RsClose ==
    /\ rsPc = "recvd" \/ (rsPc = "sent" /\ rsWire = <<>>)
    /\ rsPc' = "idle"
    /\ rsSend' = NoSend
    /\ rsWire' = <<>>
    /\ rsRecv' = NoRecv
    /\ UNCHANGED otherThanRs

NextRS ==
    \/ \E srcIP \in RsIPs, dstIP \in RsIPs, srcPort \in RsSrcPorts,
          dstPort \in RsDstPorts, seq \in RsSeqs, ack \in RsAcks, flags \in RsFlags,
          tcpOptions \in RsOptions, payload \in RsPayloads, sendtoOk \in BOOLEAN :
           SendPacket(srcIP, srcPort, dstIP, dstPort, seq, ack, flags, tcpOptions,
                      payload, sendtoOk)
    \/ \E t \in RsTampers : Network(t)
    \/ \E bufLen \in RsBufLens, recvfromOk \in BOOLEAN : RecvPacket(bufLen, recvfromOk)
    \/ RsClose

\* SendPacket with option strings up to and beyond the 40 bytes a TCP header
\* has room for; SendPacket takes any []byte as tcpOptions.
RsOptionLens == {0, 3, 4, 40, 41, 44}
RsAnyOptions == {[i \in 1..n |-> 1] : n \in RsOptionLens}

NextRSBuild ==
    \/ \E srcIP \in RsIPs, dstIP \in RsIPs, srcPort \in RsSrcPorts,
          dstPort \in RsDstPorts, seq \in RsSeqs, ack \in RsAcks, flags \in RsFlags,
          tcpOptions \in RsAnyOptions, payload \in {<<>>, <<255>>},
          sendtoOk \in BOOLEAN :
           SendPacket(srcIP, srcPort, dstIP, dstPort, seq, ack, flags, tcpOptions,
                      payload, sendtoOk)
    \/ \E t \in RsTampers : Network(t)
    \/ \E bufLen \in RsBufLens, recvfromOk \in BOOLEAN : RecvPacket(bufLen, recvfromOk)
    \/ RsClose

-----------------------------------------------------------------------------
(* pkg/tunnel: MTUDiscovery.  DiscoverOptimalMTU's binary search, one probe *)
(* per step, and the payload budget it returns.                             *)

MinMTU == 576
MaxMTU == 1500
maxAttempts == 10
ipHeaderSize == 20
tcpHeaderSize == 20
packetTypeOverhead == 1
encryptionOverhead == 28

\* The values NewMTUDiscovery is given as initialMTU.
InitialMTUs == {1400, 9000}

\* testMTU without the fallback for a refused connection: the probe is the dial.
testMTU_DialOnly(mtu, dialOk) == dialOk

\* testMTU: true when the TCP dial succeeds; when it fails, "mtu <= 1200".
testMTU(mtu, dialOk) == IF ~dialOk THEN mtu <= 1200 ELSE TRUE

\* Mutant: the loop stops after nine probes.
LoopRuns_NineProbes(lo, hi, att) == lo <= hi /\ att < maxAttempts - 1

\* "for low <= high && attempts < maxAttempts"
LoopRuns(lo, hi, att) == lo <= hi /\ att < maxAttempts

\* "testMTU := (low + high) / 2"
ProbeSize(lo, hi) == (lo + hi) \div 2

\* Mutant: the TCP header is not deducted from the path MTU.
SafeMTU_NoTCPHeader(pmtu) ==
    LET safeMTU == pmtu - ipHeaderSize - packetTypeOverhead - encryptionOverhead
        raised  == IF safeMTU < 500 THEN 500 ELSE safeMTU
    IN  IF raised > 1371 THEN 1371 ELSE raised

\* Mutant: the budget is not capped at 1371.
SafeMTU_NoCap(pmtu) ==
    LET safeMTU == pmtu - ipHeaderSize - tcpHeaderSize - packetTypeOverhead
                   - encryptionOverhead
    IN  IF safeMTU < 500 THEN 500 ELSE safeMTU

\* "safeMTU := optimal - ipHeaderSize - tcpHeaderSize - packetTypeOverhead -
\* encryptionOverhead", raised to 500 and capped at 1371.
SafeMTU(pmtu) ==
    LET safeMTU == pmtu - ipHeaderSize - tcpHeaderSize - packetTypeOverhead
                   - encryptionOverhead
        raised  == IF safeMTU < 500 THEN 500 ELSE safeMTU
    IN  IF raised > 1371 THEN 1371 ELSE raised

NoMTUResult == [mtu |-> 0, err |-> "none"]

MtuIdle ==
    /\ mtuPc = "none"
    /\ mtuDisc = [currentMTU |-> 0, minMTU |-> 0, maxMTU |-> 0]
    /\ low = 0
    /\ high = 0
    /\ optimal = 0
    /\ attempts = 0
    /\ mtuProbes = {}
    /\ mtuT = 0
    /\ mtuRet = NoMTUResult

NewMTUDiscovery(initialMTU) ==
    /\ mtuPc = "none"
    /\ mtuDisc' = [currentMTU |-> initialMTU, minMTU |-> MinMTU, maxMTU |-> MaxMTU]
    /\ mtuPc' = "new"
    /\ UNCHANGED <<low, high, optimal, attempts, mtuProbes, mtuT, mtuRet>>
    /\ UNCHANGED otherThanMtu

\* DiscoverOptimalMTU up to the loop: the address is parsed and resolved, or the
\* call returns m.currentMTU and an error.
DiscoverOptimalMTU(resolveOk) ==
    /\ mtuPc = "new"
    /\ IF resolveOk
       THEN /\ low' = mtuDisc.minMTU
            /\ high' = mtuDisc.maxMTU
            /\ optimal' = mtuDisc.minMTU
            /\ attempts' = 0
            /\ mtuPc' = "search"
            /\ UNCHANGED mtuRet
       ELSE /\ mtuRet' = [mtu |-> mtuDisc.currentMTU, err |-> "error"]
            /\ mtuPc' = "done"
            /\ UNCHANGED <<low, high, optimal, attempts>>
    /\ UNCHANGED <<mtuDisc, mtuProbes, mtuT>>
    /\ UNCHANGED otherThanMtu

\* One pass of the loop, the probe having answered ok.
SearchStep(ok) ==
    LET size == ProbeSize(low, high) IN
    /\ attempts' = attempts + 1
    /\ IF ok
       THEN /\ optimal' = size
            /\ low' = size + 1
            /\ UNCHANGED high
       ELSE /\ high' = size - 1
            /\ UNCHANGED <<low, optimal>>
    /\ mtuProbes' = mtuProbes \cup {<<size, ok>>}

\* One pass of the loop with testMTU as the probe.
Probe(dialOk) ==
    /\ mtuPc = "search"
    /\ mtuT = 0
    /\ LoopRuns(low, high, attempts)
    /\ SearchStep(testMTU(ProbeSize(low, high), dialOk))
    /\ UNCHANGED <<mtuPc, mtuDisc, mtuT, mtuRet>>
    /\ UNCHANGED otherThanMtu

\* The loop has ended: the budget is computed and returned.
DiscoverReturn ==
    /\ mtuPc = "search"
    /\ ~LoopRuns(low, high, attempts)
    /\ mtuRet' = [mtu |-> SafeMTU(optimal), err |-> "nil"]
    /\ mtuPc' = "done"
    /\ UNCHANGED <<mtuDisc, low, high, optimal, attempts, mtuProbes, mtuT>>
    /\ UNCHANGED otherThanMtu

NextMTU ==
    \/ \E initialMTU \in InitialMTUs : NewMTUDiscovery(initialMTU)
    \/ \E resolveOk \in BOOLEAN : DiscoverOptimalMTU(resolveOk)
    \/ \E dialOk \in BOOLEAN : Probe(dialOk)
    \/ DiscoverReturn

\* DiscoverOptimalMTU on a path that carries exactly the sizes up to T: the
\* search starts as in DiscoverOptimalMTU, and each probe answers "size <= T".
DiscoverOnPath(T) ==
    /\ mtuPc = "new"
    /\ low' = mtuDisc.minMTU
    /\ high' = mtuDisc.maxMTU
    /\ optimal' = mtuDisc.minMTU
    /\ attempts' = 0
    /\ mtuT' = T
    /\ mtuPc' = "search"
    /\ UNCHANGED <<mtuDisc, mtuProbes, mtuRet>>
    /\ UNCHANGED otherThanMtu

\* One pass of the loop on such a path.
PathProbe ==
    /\ mtuPc = "search"
    /\ mtuT # 0
    /\ LoopRuns(low, high, attempts)
    /\ SearchStep(ProbeSize(low, high) <= mtuT)
    /\ UNCHANGED <<mtuPc, mtuDisc, mtuT, mtuRet>>
    /\ UNCHANGED otherThanMtu

NextMTUSearch ==
    \/ \E initialMTU \in InitialMTUs : NewMTUDiscovery(initialMTU)
    \/ \E T \in MinMTU..MaxMTU : DiscoverOnPath(T)
    \/ PathProbe
    \/ DiscoverReturn

-----------------------------------------------------------------------------
(* pkg/faketcp: the package variables CurrentMode and EnableRawSocket, and  *)
(* SetMode, GetMode, DialAuto, ListenAuto.  SetMode takes no lock: its two  *)
(* assignments are two steps, and calls from different goroutines           *)
(* interleave.                                                              *)

ModeUDP == 0
ModeRaw == 1
Modes == {ModeUDP, ModeRaw}

\* The goroutines calling into the package.
ModeGoroutines == {1, 2}

\* A goroutine's position: pc, SetMode's argument, and what its last GetMode
\* and DialAuto / ListenAuto saw.
ModeIdleCall == [pc |-> "idle", mode |-> ModeUDP, got |-> "none", auto |-> "none"]

ModeIdle ==
    /\ CurrentMode = ModeUDP
    /\ EnableRawSocket = FALSE
    /\ modeGor = [g \in ModeGoroutines |-> ModeIdleCall]

\* SetMode(mode) is called.
SetMode(g, mode) ==
    /\ modeGor[g].pc = "idle"
    /\ modeGor' = [modeGor EXCEPT ![g] = [ModeIdleCall EXCEPT !.pc = "mode",
                                                          !.mode = mode]]
    /\ UNCHANGED <<CurrentMode, EnableRawSocket>>
    /\ UNCHANGED otherThanMode

\* "CurrentMode = mode"
SetCurrentMode(g) ==
    /\ modeGor[g].pc = "mode"
    /\ CurrentMode' = modeGor[g].mode
    /\ modeGor' = [modeGor EXCEPT ![g].pc = "enable"]
    /\ UNCHANGED EnableRawSocket
    /\ UNCHANGED otherThanMode

\* "EnableRawSocket = (mode == ModeRaw)"; SetMode returns.
SetEnableRawSocket(g) ==
    /\ modeGor[g].pc = "enable"
    /\ EnableRawSocket' = (modeGor[g].mode = ModeRaw)
    /\ modeGor' = [modeGor EXCEPT ![g].pc = "idle"]
    /\ UNCHANGED CurrentMode
    /\ UNCHANGED otherThanMode

\* GetMode returns CurrentMode.
GetMode(g) ==
    /\ modeGor[g].pc = "idle"
    /\ modeGor' = [modeGor EXCEPT ![g].got = CurrentMode]
    /\ UNCHANGED <<CurrentMode, EnableRawSocket>>
    /\ UNCHANGED otherThanMode

\* DialAuto / ListenAuto dispatch on EnableRawSocket.
DialAuto(g) ==
    /\ modeGor[g].pc = "idle"
    /\ modeGor' = [modeGor EXCEPT ![g].auto = IF EnableRawSocket THEN "DialRaw"
                                              ELSE "Dial"]
    /\ UNCHANGED <<CurrentMode, EnableRawSocket>>
    /\ UNCHANGED otherThanMode

ListenAuto(g) ==
    /\ modeGor[g].pc = "idle"
    /\ modeGor' = [modeGor EXCEPT ![g].auto = IF EnableRawSocket THEN "ListenRaw"
                                              ELSE "Listen"]
    /\ UNCHANGED <<CurrentMode, EnableRawSocket>>
    /\ UNCHANGED otherThanMode

NextMode ==
    \/ \E g \in ModeGoroutines, mode \in Modes : SetMode(g, mode)
    \/ \E g \in ModeGoroutines : SetCurrentMode(g)
    \/ \E g \in ModeGoroutines : SetEnableRawSocket(g)
    \/ \E g \in ModeGoroutines : GetMode(g)
    \/ \E g \in ModeGoroutines : DialAuto(g)
    \/ \E g \in ModeGoroutines : ListenAuto(g)

-----------------------------------------------------------------------------
(* The specifications.                                                     *)

InitFEC == FecIdle /\ FwIdle /\ RsIdle /\ MtuIdle /\ ModeIdle

SpecFEC == InitFEC /\ [][NextFEC]_vars

SpecFECDecode == InitFEC /\ [][NextFECDecode]_vars

SpecFECNew == InitFEC /\ [][NextFECNew]_vars

InitFW == FecIdle /\ FwIdle /\ RsIdle /\ MtuIdle /\ ModeIdle

SpecFW == InitFW /\ [][NextFW]_vars

SpecFWRecovery == InitFW /\ [][NextFWRecovery]_vars

InitRS == FecIdle /\ FwIdle /\ RsIdle /\ MtuIdle /\ ModeIdle

SpecRS == InitRS /\ [][NextRS]_vars

SpecRSBuild == InitRS /\ [][NextRSBuild]_vars

InitMTU == FecIdle /\ FwIdle /\ RsIdle /\ MtuIdle /\ ModeIdle

SpecMTU == InitMTU /\ [][NextMTU]_vars

SpecMTUSearch == InitMTU /\ [][NextMTUSearch]_vars

InitMode == FecIdle /\ FwIdle /\ RsIdle /\ MtuIdle /\ ModeIdle

SpecMode == InitMode /\ [][NextMode]_vars

-----------------------------------------------------------------------------
(* Claims about pkg/fec.                                                   *)

NumLost == Cardinality({i \in 1..Len(fecPresent) : ~fecPresent[i]})

\* C1: with at most parityShards shards marked missing and a non-empty payload
\* of at most dataShards*shardSize bytes, Decode succeeds and returns the
\* payload followed only by zero bytes.
C1_RoundTrip ==
    (/\ fecPc = "decoded"
     /\ Len(fecData) <= fec.dataShards * fec.shardSize
     /\ NumLost <= fec.parityShards)
    => /\ fecOut.err = "nil"
       /\ Len(fecOut.data) >= Len(fecData)
       /\ \A i \in 1..Len(fecOut.data) :
              fecOut.data[i] = IF i <= Len(fecData) THEN fecData[i] ELSE 0

\* C1 witness: a block that lost a data shard and was rebuilt from parity.
C1_Witness ==
    /\ fecPc = "decoded"
    /\ Len(fecData) < fec.dataShards * fec.shardSize
    /\ NumLost = fec.parityShards
    /\ fec.dataShards = 2
    /\ ~fecPresent[1]
    /\ fecOut.err = "nil"
    /\ SubSeq(fecOut.data, 1, Len(fecData)) = fecData

\* C2: with more than parityShards shards marked missing, Decode returns
\* ErrIncomplete or ErrUnrecoverable and no data.
C2_TooManyLost ==
    (fecPc = "decoded" /\ NumLost > fec.parityShards)
    => /\ fecOut.err \in {"ErrIncomplete", "ErrUnrecoverable"}
       /\ fecOut.data = Nil

\* C2 witness: every shard lost, Decode reports ErrIncomplete.
C2_Witness ==
    /\ fecPc = "decoded"
    /\ NumLost = fec.dataShards + fec.parityShards
    /\ fecOut.err = "ErrIncomplete"

-----------------------------------------------------------------------------
(* Claims about pkg/iptables.                                              *)

Returning(g, name) == gor[g].pc = "unlock" /\ gor[g].name = name

\* C3: when RemoveAllRules returns, after whatever adds were made from either
\* goroutine, the manager's rule list is empty, also when deletions failed.
C3_ListEmptyAfterRemoveAll ==
    \A g \in Goroutines : Returning(g, "RemoveAllRules") => rules = <<>>

\* C3 witness: RemoveAllRules returns after working on a port rule and a
\* connection rule, one of whose deletions failed.
C3_Witness ==
    \E g \in Goroutines :
        /\ Returning(g, "RemoveAllRules")
        /\ gor[g].n = 2
        /\ gor[g].fails = 1
        /\ {PortRule(p) : p \in Ports} \cap fwAdded # {}
        /\ {ConnRule(c) : c \in Conns} \cap fwAdded # {}
        /\ rules = <<>>

\* C4: while every iptables command succeeds and nothing deletes from the
\* table, the table holds exactly one copy of a port's rule once
\* AddRuleForPort has added it, every AddRuleForPort call returns with that
\* one copy in place, and the rule list holds the rule at most once.
C4_InstallIdempotent ==
    (~fwEnvFail /\ ~fwDelRan) =>
        \A p \in Ports :
            /\ table[PortRule(p)] = IF PortRule(p) \in fwAdded THEN 1 ELSE 0
            /\ Occurrences(rules, PortRule(p)) <= 1
            /\ \A g \in Goroutines :
                   (Returning(g, "AddRuleForPort") /\ gor[g].todo = <<PortRule(p)>>)
                   => (gor[g].ret = "nil" /\ table[PortRule(p)] = 1)

\* C4 witness: a repeated AddRuleForPort returns having found the rule in place.
C4_Witness ==
    \E g \in Goroutines, p \in Ports :
        /\ Returning(g, "AddRuleForPort")
        /\ gor[g].todo = <<PortRule(p)>>
        /\ gor[g].log = "exists"
        /\ ~fwEnvFail /\ ~fwDelRan
        /\ table[PortRule(p)] = 1
        /\ Occurrences(rules, PortRule(p)) = 1

\* The state in which session B's AddRuleForPort(port) returns, after session A
\* left the port's rule behind and B ran ClearAllRules(port) first.
RecoveredBy(g) ==
    /\ fwRecov.st = "done"
    /\ Returning(g, "AddRuleForPort")

RecoveryGood(g) ==
    /\ gor[g].ret = "nil"
    /\ table[PortRule(fwRecov.port)] = 1
    /\ Occurrences(rules, PortRule(fwRecov.port)) >= 1

C7_RemoveAllAggregates ==
    \A g \in Goroutines :
        Returning(g, "RemoveAllRules")
        => /\ gor[g].att = gor[g].n
           /\ (gor[g].ret # "nil") <=> (gor[g].fails > 0)

\* C7 witness: two rules, one deletion failed, both were tried, an error returned.
C7_Witness ==
    \E g \in Goroutines :
        /\ Returning(g, "RemoveAllRules")
        /\ gor[g].n = 2
        /\ gor[g].att = 2
        /\ gor[g].fails = 1
        /\ gor[g].ret = "error"

\* C8 as stated: ClearAllRules returns no error when its deletions failed only
\* because the rules were absent.
C8_AbsentIsNoError ==
    (clr.pc = "ret" /\ clr.absent > 0 /\ clr.other = 0) => clr.ret = "nil"


-----------------------------------------------------------------------------
(* Claims about pkg/rawsocket.                                              *)

\* C9: for every packet SendPacket builds whose total length fits in 16 bits,
\* CalculateChecksum over the 20-byte IP header with its stored checksum is 0,
\* and CalculateChecksum over pseudo header + TCP header (with its stored
\* checksum) + payload is 0.
C9_ChecksumsVerify ==
    (rsPc = "sent" /\ Len(rsSend.packet) < 65536) =>
        LET p        == rsSend.packet
            ipHeader == SubSeq(p, 1, IPHeaderSize)
            segment  == SubSeq(p, IPHeaderSize + 1, Len(p))
        IN  /\ CalculateChecksum(ipHeader) = 0
            /\ CalculateChecksum(PseudoHeader(SubSeq(ipHeader, 13, 16),
                                              SubSeq(ipHeader, 17, 20),
                                              Len(segment)) \o segment) = 0

\* C9 witness: a packet with an odd payload and padded options whose header
\* sums carry out of 16 bits and whose stored checksums are not zero.
C9_Witness ==
    /\ rsPc = "sent"
    /\ Len(rsSend.payload) % 2 = 1
    /\ Len(rsSend.tcpOptions) % 4 # 0
    /\ ChecksumSum(SubSeq(rsSend.packet, 1, IPHeaderSize)) >= 65536
    /\ Uint16(rsSend.packet, 11) # 0
    /\ Uint16(rsSend.packet, IPHeaderSize + 17) # 0

\* The datagrams C10 says RecvPacket rejects: not TCP, an IHL or a TCP data
\* offset below 5 words, or shorter than the header lengths they declare.
Malformed(d) ==
    IF Len(d) < IPHeaderSize THEN TRUE
    ELSE LET ihl == (d[1] % 16) * 4 IN
         IF d[10] # IPPROTO_TCP \/ ihl < IPHeaderSize \/ Len(d) < ihl + TCPHeaderSize
         THEN TRUE
         ELSE LET dataOffset == (d[ihl + 13] \div 16) * 4
              IN  dataOffset < TCPHeaderSize \/ Len(d) < ihl + dataOffset

\* C10: RecvPacket returns an error, and no parsed fields or payload, for every
\* received datagram that is not TCP, is truncated, or carries an IHL or a TCP
\* data offset below 5 words.
C10_RecvValidates ==
    (rsPc = "recvd" /\ Malformed(rsWire)) =>
        /\ rsRecv.err # "nil"
        /\ rsRecv.srcIP = <<>>
        /\ rsRecv.payload = <<>>

-----------------------------------------------------------------------------
(* Claims about pkg/tunnel.                                                 *)

\* C11: whenever DiscoverOptimalMTU returns without error, its result is the
\* path MTU the search found minus 20, 20, 1 and 28, clamped to [500, 1371],
\* and so lies within [500, 1371].
C11_BudgetIsClampedPmtu ==
    (mtuPc = "done" /\ mtuRet.err = "nil") =>
        LET budget == ((((optimal - 20) - 20) - 1) - 28) IN
        /\ mtuRet.mtu = IF budget < 500 THEN 500
                        ELSE IF budget > 1371 THEN 1371 ELSE budget
        /\ mtuRet.mtu >= 500
        /\ mtuRet.mtu <= 1371

\* C11 witness: every probe succeeded, the search found 1500 and the budget was
\* capped at 1371.
C11_Witness ==
    /\ mtuPc = "done"
    /\ mtuRet.err = "nil"
    /\ optimal = MaxMTU
    /\ mtuRet.mtu = 1371

\* C12: with a probe that is true exactly for the sizes <= T, 576 <= T <= 1500,
\* the binary search over [576, 1500] ends with path MTU T after at most 10
\* probes, and it ends because the range is exhausted, not because of the cap.
C12_SearchFindsThreshold ==
    (mtuPc = "done" /\ mtuT # 0) =>
        /\ optimal = mtuT
        /\ attempts <= 10
        /\ low > high

\* C12 witness: a search that needed all ten probes to find a threshold
\* strictly inside the range.
C12_Witness ==
    /\ mtuPc = "done"
    /\ mtuT > MinMTU
    /\ mtuT < MaxMTU
    /\ attempts = maxAttempts
    /\ optimal = mtuT
    /\ low > high

\* C19: when DiscoverOptimalMTU returns without error, the path MTU its result
\* is computed from is a size that a probe of that run answered true for,
\* whatever the connection attempts did, also when every one of them failed.
C19_PathMtuWasProbed ==
    (mtuPc = "done" /\ mtuRet.err = "nil") =>
        /\ <<optimal, TRUE>> \in mtuProbes
        /\ mtuRet.mtu = SafeMTU(optimal)

\* C19 witness: connection attempts failed, probes answered false, and the
\* search returned with path MTU 1200, probed true on the tenth pass.
C19_Witness ==
    /\ mtuPc = "done"
    /\ mtuRet.err = "nil"
    /\ optimal = 1200
    /\ attempts = maxAttempts
    /\ <<1200, TRUE>> \in mtuProbes
    /\ \E p \in mtuProbes : ~p[2]
    /\ mtuRet.mtu = SafeMTU(1200)

\* C21: when DiscoverOptimalMTU returns without error, the budget it returns
\* plus the 69 bytes of overhead (20 IP + 20 TCP + 1 kind + 28 cipher) does not
\* exceed the path MTU the search found, whatever the probes answered; the
\* path MTU less the overhead is never below 500, so the lower clamp never
\* raises the budget.
C21_BudgetFitsPathMtu ==
    (mtuPc = "done" /\ mtuRet.err = "nil") =>
        /\ mtuRet.mtu + 69 <= optimal
        /\ optimal - 69 >= 500

\* C21 witness: a run with failed probes returned a budget that, with the
\* overhead, fills the path MTU it found exactly, below the cap of 1371.
C21_Witness ==
    /\ mtuPc = "done"
    /\ mtuRet.err = "nil"
    /\ \E p \in mtuProbes : ~p[2]
    /\ mtuRet.mtu + 69 = optimal
    /\ mtuRet.mtu < 1371

-----------------------------------------------------------------------------
(* Further claims about pkg/fec.                                            *)

\* C13 as stated: every shard Encode emits has size exactly S, and the block
\* Decode returns from D or more of those shards has length exactly D*S.
C13_ShardSizeExactlyS ==
    /\ fecPc = "encoded" =>
           \A i \in 1..Len(fecShards) : Len(fecShards[i]) = fec.shardSize
    /\ (fecPc = "decoded" /\ NumLost <= fec.parityShards) =>
           Len(fecOut.data) = fec.dataShards * fec.shardSize

\* C13 amended: every shard Encode emits for a payload of n bytes has the same
\* size, the larger of S and ceil(n / D), which is S exactly when n <= D*S; the
\* block Decode returns from D or more of those shards has D times that size.
C13_ShardSizeIsRaised ==
    LET n    == Len(fecData)
        need == IF n % fec.dataShards = 0 THEN n \div fec.dataShards
                ELSE (n \div fec.dataShards) + 1
        size == IF need > fec.shardSize THEN need ELSE fec.shardSize
    IN  /\ fecPc = "encoded" =>
               /\ \A i \in 1..Len(fecShards) : Len(fecShards[i]) = size
               /\ (size = fec.shardSize) <=> (n <= fec.dataShards * fec.shardSize)
        /\ (fecPc = "decoded" /\ NumLost <= fec.parityShards) =>
               /\ fecOut.err = "nil"
               /\ Len(fecOut.data) = fec.dataShards * size

\* C13 witness: a payload of D*S + 1 bytes, decoded after P shards were lost
\* into a block of D*(S + 1) bytes.
C13_Witness ==
    /\ fecPc = "decoded"
    /\ fec.dataShards = 2
    /\ Len(fecData) = fec.dataShards * fec.shardSize + 1
    /\ NumLost = fec.parityShards
    /\ fecOut.err = "nil"
    /\ Len(fecOut.data) = fec.dataShards * (fec.shardSize + 1)

\* The shards Decode was told are present, and those of them that hold bytes.
PresentCount == Cardinality({i \in 1..Len(fecPresent) : fecPresent[i]})
HeldCount ==
    Cardinality({i \in 1..Len(fecShards) : fecPresent[i] /\ fecShards[i] # Nil})

\* Reconstruct ran and failed: enough shards were marked present, some hold
\* bytes, but fewer than D of them do.
ReconstructFailed ==
    /\ fecPc = "decoded"
    /\ PresentCount >= fec.dataShards
    /\ HeldCount > 0
    /\ HeldCount < fec.dataShards

\* C14 as stated: when at least D shards are marked present and reconstruction
\* fails, Decode reports ErrUnrecoverable; it reports ErrIncomplete only when
\* fewer than D shards are marked present.
C14_UnrecoverableWhenEnoughPresent ==
    /\ ReconstructFailed => fecOut.err = "ErrUnrecoverable"
    /\ (fecPc = "decoded" /\ fecOut.err = "ErrIncomplete")
           => PresentCount < fec.dataShards

\* C14 amended: when reconstruction fails, Decode reports ErrUnrecoverable if
\* all D+P shards are marked present and ErrIncomplete otherwise; with fewer
\* than D shards marked present it reports ErrIncomplete.
C14_UnrecoverableWhenAllPresent ==
    /\ ReconstructFailed =>
           fecOut.err = IF PresentCount = fec.dataShards + fec.parityShards
                        THEN "ErrUnrecoverable" ELSE "ErrIncomplete"
    /\ (fecPc = "decoded" /\ fecOut.err = "ErrUnrecoverable")
           => PresentCount = fec.dataShards + fec.parityShards
    /\ (fecPc = "decoded" /\ PresentCount < fec.dataShards)
           => fecOut.err = "ErrIncomplete"

\* C14 witness: D shards marked present, one of them nil, one shard marked
\* missing; reconstruction fails and Decode reports ErrIncomplete.
C14_Witness ==
    /\ ReconstructFailed
    /\ PresentCount < fec.dataShards + fec.parityShards
    /\ fecOut.err = "ErrIncomplete"

\* C15 as stated: NewFEC returns an FEC only for D > 0, P > 0, shard size > 0
\* and D + P <= 255; every other combination is rejected.
C15_NewFECBound ==
    fecPc = "ready" =>
        /\ fec.dataShards > 0
        /\ fec.parityShards > 0
        /\ fec.shardSize > 0
        /\ fec.dataShards + fec.parityShards <= 255

-----------------------------------------------------------------------------
(* Further claims about pkg/rawsocket.                                      *)

\* C16 as stated: every packet SendPacket builds has a 20-byte IPv4 header
\* (IHL 5) with DF set, TTL 64 and protocol TCP, a TCP window of 65535, and a
\* data-offset field that, times 4, is the length of the TCP header with the
\* options padded to a multiple of 4 bytes, whatever options were passed.
C16_PacketFormat ==
    rsPc = "sent" =>
        LET p      == rsSend.packet
            optLen == Len(rsSend.tcpOptions)
            padded == ((optLen + 3) \div 4) * 4
        IN  /\ p[1] = 69
            /\ (Uint16(p, 7) \div 16384) % 2 = 1
            /\ p[9] = 64
            /\ p[10] = 6
            /\ Uint16(p, 20 + 15) = 65535
            /\ Len(p) = 20 + 20 + padded + Len(rsSend.payload)
            /\ (p[20 + 13] \div 16) * 4 = 20 + padded

\* RecvPacket has parsed exactly the bytes SendPacket built: the datagram
\* arrived unchanged and whole, and the options were at most 40 bytes.
ParsedWhatWasSent ==
    /\ rsPc = "recvd"
    /\ rsSend.ret = "nil"
    /\ Len(rsSend.tcpOptions) <= 40
    /\ Len(rsSend.packet) <= 65535
    /\ rsWire = rsSend.packet
    /\ rsRecv.err # "failed to receive packet"
    /\ rsRecv.n = Len(rsSend.packet)

\* C20: RecvPacket, parsing the bytes of a packet SendPacket built with options
\* of at most 40 bytes, returns no error, the addresses, ports, seq, ack and
\* flags that were sent, and the payload that was sent (none for an empty
\* payload); the options are skipped.
C20_PacketRoundTrip ==
    ParsedWhatWasSent =>
        /\ rsRecv.err = "nil"
        /\ IPEqual(rsRecv.srcIP, rsSend.srcIP)
        /\ IPEqual(rsRecv.dstIP, rsSend.dstIP)
        /\ rsRecv.srcPort = rsSend.srcPort
        /\ rsRecv.dstPort = rsSend.dstPort
        /\ rsRecv.seq = rsSend.seq
        /\ rsRecv.ack = rsSend.ack
        /\ rsRecv.flags = rsSend.flags
        /\ rsRecv.payload = rsSend.payload

\* C20 witness: a packet with 40 bytes of options, the largest sequence number
\* and a payload came back from RecvPacket with that payload.
C20_Witness ==
    /\ ParsedWhatWasSent
    /\ Len(rsSend.tcpOptions) = 40
    /\ rsSend.seq = <<65535, 65535>>
    /\ rsSend.payload # <<>>
    /\ rsRecv.payload = rsSend.payload

-----------------------------------------------------------------------------
(* Further claims about pkg/iptables.                                       *)

\* No call on the manager is in progress.
Quiescent == \A g \in Goroutines : gor[g].pc = "idle"

-----------------------------------------------------------------------------
(* Claims about pkg/faketcp's mode switch.                                  *)

\* C18 as stated: once every SetMode call has completed, also calls made
\* concurrently from different goroutines, EnableRawSocket is true if and only
\* if CurrentMode is ModeRaw.
C18_ModeFlagsAgree ==
    (\A g \in ModeGoroutines : modeGor[g].pc = "idle")
        => (EnableRawSocket <=> (CurrentMode = ModeRaw))

=============================================================================
